---- MODULE Spec2Model ----
(***************************************************************************)
(* The DeepNode price alert bot, in its three variants:                    *)
(*   "group" : src/unnamed/part_000 lines 1-441   (per-group, USD + INR)   *)
(*   "dex"   : src/unnamed/part_000 lines 442-851 (single chat, DexScreener)*)
(*   "cg"    : src/index.js                       (single chat, CoinGecko) *)
(* Node runs one callback at a time: an action below is one run of a       *)
(* callback from the event that resumes it (a cron firing, a webhook       *)
(* request, an HTTP response) to its next await or its end.                *)
(***************************************************************************)
EXTENDS Integers, Sequences, FiniteSets, TLC

VARIABLES
    variant,         \* which of the three programs is running
    credentials,     \* process.env: whether BOT_TOKEN (token) and CHAT_ID (chat) are set
    exited,          \* process.exit(1) has been called
    now,             \* Date.now(), in minutes
    groupAlerts,     \* group: the Map, as the sequence of its entries in insertion order
    lowPriceAlert,   \* dex, cg
    highPriceAlert,  \* dex, cg
    cachedPrice,     \* group, dex
    cacheTime,       \* group, dex
    cachedINRRate,   \* group
    inrCacheTime,    \* group
    tasks,           \* the async invocations in progress and their locals
    fired,           \* history: alert notifications delivered since the threshold was armed
    audit,           \* which history is kept: "off", "alerts" (fired), or in calls
                     \* "pairs" (the latest call, with the pairs it has read) or
                     \* "requests" (the latest MaxCalls calls, with their requests)
    calls            \* history: the getDeepNodePrice calls that have returned, latest last

vars == <<variant, credentials, exited, now, groupAlerts, lowPriceAlert, highPriceAlert, cachedPrice,
          cacheTime, cachedINRRate, inrCacheTime, tasks, fired, audit, calls>>

---------------------------------------------------------------------------
(* Bounds of the model *)

MaxTime == 2        \* the clock runs from 0 to MaxTime minutes
MaxPairs == 2       \* pairs in one DexScreener response

(* Program constants; times are in minutes *)

CACHE_DURATION == 2
INR_CACHE_DURATION == 30
FALLBACK_INR == 83
MaxSanePrice == 1000000

Variants == {"group", "dex", "cg"}
Chats == {1, 2}              \* chat ids that send webhook messages
CHAT_ID == 1                 \* dex, cg: process.env.CHAT_ID
Ticks == {"t1", "t2"}        \* cron callbacks that can be in progress together
Handlers == {"h1"}           \* webhook requests that can be in progress together
TwoHandlers == {"h1", "h2"}  \* the same, with a second request
TaskIds == Ticks \cup TwoHandlers

---------------------------------------------------------------------------
(* JavaScript values *)

Null == <<>>                 \* null; a number n is <<n>>
Num(n) == <<n>>
Val(v) == v[1]
Truthy(v) == v # Null /\ Val(v) # 0      \* a number or null used as a condition

NaN == [nan |-> TRUE, val |-> 0]
Number(n) == [nan |-> FALSE, val |-> n]

DigitChars == {"0", "1", "2", "3"}
DigitVal(c) == CASE c = "0" -> 0 [] c = "1" -> 1 [] c = "2" -> 2 [] c = "3" -> 3

RECURSIVE LeadingDigits(_)
LeadingDigits(s) ==
    IF s = <<>> \/ Head(s) \notin DigitChars THEN <<>>
    ELSE <<Head(s)>> \o LeadingDigits(Tail(s))

RECURSIVE DecimalValue(_)
DecimalValue(ds) ==
    IF ds = <<>> THEN 0
    ELSE 10 * DecimalValue(SubSeq(ds, 1, Len(ds) - 1)) + DigitVal(ds[Len(ds)])

(* parseFloat on a string of characters: an optional sign, then the longest
   run of digits; what follows the digits is ignored; no digit gives NaN.
   (The strings of the model hold no '.', 'e' or white space.) *)
ParseFloat(s) ==
    LET signed == s # <<>> /\ Head(s) \in {"-", "+"}
        body == IF signed THEN Tail(s) ELSE s
        ds == LeadingDigits(body)
        sign == IF signed /\ Head(s) = "-" THEN -1 ELSE 1
    IN  IF ds = <<>> THEN NaN ELSE Number(sign * DecimalValue(ds))

(* String.prototype.startsWith *)
StartsWith(s, p) == Len(s) >= Len(p) /\ SubSeq(s, 1, Len(p)) = p

(* messageText.split(" ")[1]: the text between the first and the second space;
   undefined, which parseFloat reads as the string "undefined", when there is
   no space *)
RECURSIVE UpToSpace(_)
UpToSpace(s) ==
    IF s = <<>> \/ Head(s) = " " THEN <<>> ELSE <<Head(s)>> \o UpToSpace(Tail(s))

Undefined == <<"undefined">>

SplitSecond(s) ==
    LET first == UpToSpace(s)
    IN  IF Len(first) = Len(s) THEN Undefined
        ELSE UpToSpace(SubSeq(s, Len(first) + 2, Len(s)))

---------------------------------------------------------------------------
(* Webhook messages *)

Str_start   == <<"/", "s", "t", "a", "r", "t">>
Str_setlow  == <<"/", "s", "e", "t", "l", "o", "w">>
Str_sethigh == <<"/", "s", "e", "t", "h", "i", "g", "h">>
Str_price   == <<"/", "p", "r", "i", "c", "e">>
Str_status  == <<"/", "s", "t", "a", "t", "u", "s">>
Str_inrrate == <<"/", "i", "n", "r", "r", "a", "t", "e">>
Str_clear   == <<"/", "c", "l", "e", "a", "r">>
Str_help    == <<"/", "h", "e", "l", "p">>
Str_info    == <<"/", "i", "n", "f", "o">>
Str_slash   == <<"/">>

(* Arguments typed after /setlow and /sethigh *)
Arguments == { <<"a">>, <<"0">>, <<"-", "2">>, <<"2">>, <<"2", "a">> }

WithArgument(cmd) == { cmd \o <<" ">> \o a : a \in Arguments }

Texts ==
    { Str_start, Str_setlow, Str_sethigh, Str_price, Str_status, Str_inrrate,
      Str_clear, Str_help, Str_info,
      <<"/", "f", "o", "o">>, <<"h", "i">>, <<>> }
    \cup WithArgument(Str_setlow) \cup WithArgument(Str_sethigh)

---------------------------------------------------------------------------
(* Provider responses *)

PriceStrings == { <<"0">>, <<"1">>, <<"2">>, <<"3">> }   \* pair.priceUsd
Liquidities == {0, 1, 2}                                  \* pair.liquidity.usd

Pairs == [priceUsd : PriceStrings, liq : Liquidities, deep : BOOLEAN]

PairLists(n) == UNION { [1..m -> Pairs] : m \in 0..n }

Throw == [status |-> "throw", pairs |-> <<>>]     \* fetch or response.json() rejects
NotOk == [status |-> "notok", pairs |-> <<>>]     \* response.ok is false
Ok(ps) == [status |-> "ok", pairs |-> ps]         \* pairs <<>>: data.pairs missing or empty

(* What the DexScreener search can answer *)
Responses == {Throw, NotOk} \cup { Ok(ps) : ps \in PairLists(MaxPairs) }
(* One answer of each kind: no answer, an error status, no pair, a pair without
   a price, a pair with each price *)
OnePair(s) == [priceUsd |-> s, liq |-> 1, deep |-> TRUE]
FewResponses == {Throw, NotOk, Ok(<<>>)} \cup { Ok(<<OnePair(s)>>) : s \in PriceStrings }

(* What an exchange-rate API can answer: a rejected fetch or unparsable body,
   a body without the rate, a rate of 0, a rate *)
RateResponses == { [status |-> "throw", rate |-> Null], [status |-> "ok", rate |-> Null],
                   [status |-> "ok", rate |-> Num(0)], [status |-> "ok", rate |-> Num(84)] }
RateUp == { [status |-> "ok", rate |-> Num(84)] }

(* group, line 120; dex, lines 504-511 *)
searchTermsGroup == << "deepnode", "deep node", "deep-book", "deep book" >>
searchTermsDex ==
    << "deepnode", "deep node", "deep-book", "deep book", "deepnode coin", "deep node coin" >>

---------------------------------------------------------------------------
(* Tasks: a cron callback or a webhook handler in progress *)

(* stale is history: the threshold an alert is about was set again after the
   alert was sent *)
NoMsg == [to |-> 0, kind |-> "", low |-> Null, high |-> Null, stale |-> FALSE]
Msg(to, kind, low, high) ==
    [to |-> to, kind |-> kind, low |-> low, high |-> high, stale |-> FALSE]

Idle ==
    [ pc |-> "idle",      \* where the task is suspended
      kind |-> "",        \* "tick" or "cmd"
      cmd |-> "",         \* cmd: the command being handled
      price |-> Null,     \* cmd (group): price, the argument of /setlow or /sethigh
      chat |-> 0,         \* cmd: message.chat.id
      tnow |-> 0,         \* getDeepNodePrice: now
      term |-> 0,         \* getDeepNodePrice: index of the search term being fetched
      best |-> Null,      \* getDeepNodePrice (dex): bestPrice
      usd |-> Null,       \* the price obtained
      api |-> 0,          \* getUSDToINR: index of the API being fetched
      inow |-> 0,         \* getUSDToINR: now
      idx |-> 0,          \* tick (group): position of the Map iterator
      msg |-> NoMsg,      \* the Telegram message being sent
      success |-> "",     \* tick (dex): success of the low alert's send, "yes" or "no"
      reqs |-> <<>>,      \* history: search terms requested by the call in progress
      seen |-> {} ]       \* history: valid pairs in the responses the call has read

(* The program's variables, passed through the code of a callback *)
Globals ==
    [ now |-> now, groupAlerts |-> groupAlerts, lowPriceAlert |-> lowPriceAlert,
      highPriceAlert |-> highPriceAlert, cachedPrice |-> cachedPrice,
      cacheTime |-> cacheTime, cachedINRRate |-> cachedINRRate,
      inrCacheTime |-> inrCacheTime, fired |-> fired, calls |-> calls,
      armed |-> NoMsg ]     \* history: the threshold this callback has set

R(g, k) == [g |-> g, k |-> k]

(* The callback leaves g and k behind *)
Becomes(t, r) ==
    /\ now' = r.g.now
    /\ groupAlerts' = r.g.groupAlerts
    /\ lowPriceAlert' = r.g.lowPriceAlert
    /\ highPriceAlert' = r.g.highPriceAlert
    /\ cachedPrice' = r.g.cachedPrice
    /\ cacheTime' = r.g.cacheTime
    /\ cachedINRRate' = r.g.cachedINRRate
    /\ inrCacheTime' = r.g.inrCacheTime
    /\ fired' = r.g.fired
    /\ calls' = r.g.calls
    /\ tasks' = [u \in TaskIds |->
                    IF u = t THEN r.k
                    ELSE IF /\ r.g.armed # NoMsg
                            /\ tasks[u].msg.to = r.g.armed.to
                            /\ tasks[u].msg.kind = r.g.armed.kind
                    THEN [tasks[u] EXCEPT !.msg.stale = TRUE]
                    ELSE tasks[u]]
    /\ ~exited
    /\ UNCHANGED <<variant, credentials, exited, audit>>

(* await sendTelegramMessage(...) in a cron callback *)
Send(g, k, pc, to, kind, low, high) ==
    R(g, [k EXCEPT !.pc = pc, !.msg = Msg(to, kind, low, high)])

(* await sendTelegramMessage(...), the last statement of a webhook handler's branch *)
Reply(g, k, to, kind, low, high) ==
    R(g, [Idle EXCEPT !.pc = "reply", !.kind = "cmd", !.chat = k.chat,
                      !.msg = Msg(to, kind, low, high)])

(* history *)
Cap(n) == IF n > 2 THEN 2 ELSE n
Delivered(g, chat, kind, ok, stale) ==
    IF audit # "alerts" \/ ~ok \/ stale THEN g
    ELSE IF kind = "low"
    THEN [g EXCEPT !.fired[chat].low = Cap(@ + 1)]
    ELSE [g EXCEPT !.fired[chat].high = Cap(@ + 1)]
Armed(g, chat, kind) ==
    IF audit # "alerts" THEN g
    ELSE IF kind = "low"
    THEN [g EXCEPT !.fired[chat].low = 0, !.armed = Msg(chat, kind, Null, Null)]
    ELSE [g EXCEPT !.fired[chat].high = 0, !.armed = Msg(chat, kind, Null, Null)]

MaxCalls == 2
Recorded(g, c) ==
    IF audit = "pairs" THEN [g EXCEPT !.calls = <<c>>]
    ELSE IF audit = "requests"
    THEN [g EXCEPT !.calls = IF Len(@) < MaxCalls THEN Append(@, [c EXCEPT !.seen = {}])
                             ELSE Append(Tail(@), [c EXCEPT !.seen = {}])]
    ELSE g
Requested(reqs, term) ==
    IF audit \in {"pairs", "requests"} THEN Append(reqs, term) ELSE reqs

(* Faulty variant of Rejected: zero and negative numbers are accepted *)
Rejected_NaNOnly(price) == price.nan

(* line 260: isNaN(price) || price <= 0 *)
Rejected(price) == price.nan \/ price.val <= 0

---------------------------------------------------------------------------
(* Per-group variant: src/unnamed/part_000 lines 1-441 *)

Has(ga, c) == \E i \in 1..Len(ga) : ga[i].id = c
IndexOf(ga, c) == CHOOSE i \in 1..Len(ga) : ga[i].id = c

(* lines 188-214: the for loop over groupAlerts.entries(), entered at entry i
   before its low check (stage "low") or its high check (stage "high"), run
   to the next await or to the end of the callback *)
RECURSIVE GroupTickLoop(_, _, _, _)
GroupTickLoop(g, k, i, stage) ==
    IF i > Len(g.groupAlerts) THEN R(g, Idle)
    ELSE LET alerts == g.groupAlerts[i] IN
         IF stage = "low"
         THEN IF Truthy(alerts.low) /\ Val(k.usd) <= Val(alerts.low)
              THEN Send(g, [k EXCEPT !.idx = i], "sendLow", alerts.id, "low", Null, Null)
              ELSE GroupTickLoop(g, k, i, "high")
         ELSE IF Truthy(alerts.high) /\ Val(k.usd) >= Val(alerts.high)
              THEN Send(g, [k EXCEPT !.idx = i], "sendHigh", alerts.id, "high", Null, Null)
              ELSE GroupTickLoop(g, k, i + 1, "low")

(* Faulty variant of GroupTickEvaluate: no return on a null price, which the
   comparisons of lines 190 and 203 then read as 0 *)
GroupTickEvaluate_NullAsZero(g, k) ==
    GroupTickLoop(g, IF k.usd = Null THEN [k EXCEPT !.usd = Num(0)] ELSE k, 1, "low")

(* lines 185-188: the cron callback after await getPriceWithINR() *)
GroupTickEvaluate(g, k) ==
    IF k.usd = Null THEN R(g, Idle)
    ELSE GroupTickLoop(g, k, 1, "low")

(* Faulty variant of GroupTickAfterLow: the callback ends after the alert *)
GroupTickAfterLow_EndsTick(g, k, ok) ==
    LET chat == g.groupAlerts[k.idx].id
        g1 == Delivered(g, chat, "low", ok, k.msg.stale)
    IN  R([g1 EXCEPT !.groupAlerts[k.idx].low = Null], Idle)

(* Faulty variant of GroupTickAfterLow: the callback goes on with the price
   cached by then *)
GroupTickAfterLow_ReadsCache(g, k, ok) ==
    LET chat == g.groupAlerts[k.idx].id
        g1 == Delivered(g, chat, "low", ok, k.msg.stale)
        g2 == [g1 EXCEPT !.groupAlerts[k.idx].low = Null]
    IN  GroupTickLoop(g2, [k EXCEPT !.msg = NoMsg, !.usd = g.cachedPrice], k.idx, "high")

(* lines 190-200: the low alert's send has returned ok *)
GroupTickAfterLow(g, k, ok) ==
    LET chat == g.groupAlerts[k.idx].id
        g1 == Delivered(g, chat, "low", ok, k.msg.stale)
        g2 == [g1 EXCEPT !.groupAlerts[k.idx].low = Null]
    IN  GroupTickLoop(g2, [k EXCEPT !.msg = NoMsg], k.idx, "high")

(* lines 203-213: the high alert's send has returned ok *)
GroupTickAfterHigh(g, k, ok) ==
    LET chat == g.groupAlerts[k.idx].id
        g1 == Delivered(g, chat, "high", ok, k.msg.stale)
        g2 == [g1 EXCEPT !.groupAlerts[k.idx].high = Null]
    IN  GroupTickLoop(g2, [k EXCEPT !.msg = NoMsg], k.idx + 1, "low")

(* Faulty variant of GroupAfterPriceData: /status reports the two thresholds
   in each other's place *)
GroupAfterPriceData_StatusSwapped(g, k) ==
    LET alerts == g.groupAlerts[IndexOf(g.groupAlerts, k.chat)] IN
    IF k.cmd = "status"
    THEN Reply(g, k, k.chat, "status",
               IF Truthy(alerts.high) THEN alerts.high ELSE Null,
               IF Truthy(alerts.low) THEN alerts.low ELSE Null)
    ELSE IF k.cmd = "price" /\ ~Truthy(k.usd) THEN Reply(g, k, k.chat, "noprice", Null, Null)
    ELSE IF k.cmd = "setlow" THEN Reply(g, k, k.chat, "lowset", k.price, Null)
    ELSE IF k.cmd = "sethigh" THEN Reply(g, k, k.chat, "highset", Null, k.price)
    ELSE Reply(g, k, k.chat, "price", Null, Null)

(* Faulty variant of GroupAfterPriceData: /setlow and /sethigh store the
   threshold after the await *)
GroupAfterPriceData_StoresLate(g, k) ==
    LET i == IndexOf(g.groupAlerts, k.chat) IN
    IF k.cmd = "setlow"
    THEN Reply([g EXCEPT !.groupAlerts[i].low = k.price], k, k.chat, "lowset", k.price, Null)
    ELSE IF k.cmd = "sethigh"
    THEN Reply([g EXCEPT !.groupAlerts[i].high = k.price], k, k.chat, "highset", Null, k.price)
    ELSE Reply(g, k, k.chat, k.cmd, Null, Null)

(* The webhook handler after await getPriceWithINR():
   lines 265-275, 287-297 (/setlow, /sethigh, whose reply reports price),
   305-316 (/price), 322-352 (/status, whose reply reports the thresholds) *)
GroupAfterPriceData(g, k) ==
    LET alerts == g.groupAlerts[IndexOf(g.groupAlerts, k.chat)] IN
    CASE k.cmd = "setlow" -> Reply(g, k, k.chat, "lowset", k.price, Null)
      [] k.cmd = "sethigh" -> Reply(g, k, k.chat, "highset", Null, k.price)
      [] k.cmd = "price" ->
            IF Truthy(k.usd) THEN Reply(g, k, k.chat, "price", Null, Null)
            ELSE Reply(g, k, k.chat, "noprice", Null, Null)
      [] k.cmd = "status" ->
            Reply(g, k, k.chat, "status",
                 IF Truthy(alerts.low) THEN alerts.low ELSE Null,
                 IF Truthy(alerts.high) THEN alerts.high ELSE Null)

(* getUSDToINR has returned: lines 167-177 of getPriceWithINR and then its
   caller, or line 358 of the /inrrate handler *)
GroupAfterRate(g, k0) ==
    LET k == [k0 EXCEPT !.api = 0, !.inow = 0] IN
    IF k.kind = "tick" THEN GroupTickEvaluate(g, k)
    ELSE IF k.cmd = "inrrate" THEN Reply(g, k, k.chat, "inrrate", Null, Null)
    ELSE GroupAfterPriceData(g, k)

(* lines 51-59: getUSDToINR up to its first fetch *)
GroupGetUSDToINR(g, k) ==
    IF Truthy(g.cachedINRRate) /\ (g.now - g.inrCacheTime) < INR_CACHE_DURATION
    THEN GroupAfterRate(g, k)
    ELSE R(g, [k EXCEPT !.pc = "rate", !.api = 1, !.inow = g.now])

(* Faulty variant of GroupOnRate: when the last exchange-rate API has failed
   the caller ends without a rate *)
GroupOnRate_GivesUp(g, k, resp) ==
    IF resp.status = "ok" /\ Truthy(resp.rate) /\ Val(resp.rate) > 0
    THEN GroupAfterRate([g EXCEPT !.cachedINRRate = resp.rate, !.inrCacheTime = k.inow], k)
    ELSE IF k.api < 3
    THEN R(g, [k EXCEPT !.api = @ + 1])
    ELSE IF k.kind = "tick" THEN R(g, Idle)
    ELSE Reply(g, k, k.chat, "noprice", Null, Null)

(* Faulty variant of GroupOnRate: with no fallback rate, the callback stops
   when the last exchange-rate API has failed *)
GroupOnRate_NoFallback(g, k, resp) ==
    IF resp.status = "ok" /\ Truthy(resp.rate) /\ Val(resp.rate) > 0
    THEN GroupAfterRate([g EXCEPT !.cachedINRRate = resp.rate, !.inrCacheTime = k.inow], k)
    ELSE IF k.api < 3
    THEN R(g, [k EXCEPT !.api = @ + 1])
    ELSE R(g, [k EXCEPT !.pc = "stopped"])

(* lines 69-99: one exchange-rate API has answered *)
GroupOnRate(g, k, resp) ==
    IF resp.status = "ok" /\ Truthy(resp.rate) /\ Val(resp.rate) > 0
    THEN GroupAfterRate([g EXCEPT !.cachedINRRate = resp.rate, !.inrCacheTime = k.inow], k)
    ELSE IF k.api < 3
    THEN R(g, [k EXCEPT !.api = @ + 1])
    ELSE GroupAfterRate([g EXCEPT !.cachedINRRate = Num(FALLBACK_INR),
                                  !.inrCacheTime = k.inow], k)

(* line 164-165: getDeepNodePrice has returned usd to getPriceWithINR *)
GroupAfterUsd(g, k, usd) ==
    GroupGetUSDToINR(g, [k EXCEPT !.usd = usd, !.tnow = 0, !.term = 0,
                                  !.reqs = <<>>, !.seen = {}])

(* lines 136-138: the pair chosen from data.pairs, 0 when there is none *)
GroupValid(p) ==
    /\ p.priceUsd # <<>>
    /\ ~ParseFloat(p.priceUsd).nan
    /\ ParseFloat(p.priceUsd).val > 0
GroupFind(ps) ==
    IF \E i \in 1..Len(ps) : GroupValid(ps[i])
    THEN CHOOSE i \in 1..Len(ps) :
            GroupValid(ps[i]) /\ \A j \in 1..(i - 1) : ~GroupValid(ps[j])
    ELSE 0

PairOf(p) == [price |-> ParseFloat(p.priceUsd).val, liq |-> p.liq]
GroupValidSeen(ps) == { PairOf(ps[i]) : i \in { j \in 1..Len(ps) : GroupValid(ps[j]) } }

Call(k, seen, ret, cached) ==
    [start |-> k.tnow, reqs |-> k.reqs, seen |-> seen, ret |-> ret, cached |-> cached]

(* Faulty variant of GroupGetDeepNodePrice: a cached price never expires *)
GroupGetDeepNodePrice_NeverExpires(g, k) ==
    IF Truthy(g.cachedPrice)
    THEN GroupAfterUsd(Recorded(g, Call([k EXCEPT !.tnow = g.now], {}, g.cachedPrice, TRUE)),
                       k, g.cachedPrice)
    ELSE R(g, [k EXCEPT !.pc = "price", !.tnow = g.now, !.term = 1,
                        !.reqs = Requested(<<>>, searchTermsGroup[1])])

(* lines 108-116: getDeepNodePrice up to its first fetch *)
GroupGetDeepNodePrice(g, k) ==
    IF Truthy(g.cachedPrice) /\ (g.now - g.cacheTime) < CACHE_DURATION
    THEN GroupAfterUsd(Recorded(g, Call([k EXCEPT !.tnow = g.now], {}, g.cachedPrice, TRUE)),
                       k, g.cachedPrice)
    ELSE R(g, [k EXCEPT !.pc = "price", !.tnow = g.now, !.term = 1,
                        !.reqs = Requested(<<>>, searchTermsGroup[1])])

(* Faulty variant of GroupOnFetch: a term whose request fails ends the call *)
GroupOnFetch_StopsOnFailure(g, k, resp) ==
    LET found == IF resp.status = "ok" THEN GroupFind(resp.pairs) ELSE 0
        seen == IF resp.status = "ok" /\ audit = "pairs"
                THEN k.seen \cup GroupValidSeen(resp.pairs) ELSE k.seen
    IN  IF found # 0
        THEN LET price == Num(ParseFloat(resp.pairs[found].priceUsd).val) IN
             GroupAfterUsd(
                Recorded([g EXCEPT !.cachedPrice = price, !.cacheTime = k.tnow],
                         Call(k, seen, price, FALSE)),
                k, price)
        ELSE IF k.term < Len(searchTermsGroup) /\ resp.status = "ok"
        THEN R(g, [k EXCEPT !.term = @ + 1, !.seen = seen,
                            !.reqs = Requested(@, searchTermsGroup[k.term + 1])])
        ELSE GroupAfterUsd(Recorded(g, Call(k, seen, Null, FALSE)), k, Null)

(* lines 122-159: the search for searchTerms[k.term] has answered *)
GroupOnFetch(g, k, resp) ==
    LET found == IF resp.status = "ok" THEN GroupFind(resp.pairs) ELSE 0
        seen == IF resp.status = "ok" /\ audit = "pairs"
                THEN k.seen \cup GroupValidSeen(resp.pairs) ELSE k.seen
    IN  IF found # 0
        THEN LET price == Num(ParseFloat(resp.pairs[found].priceUsd).val) IN
             GroupAfterUsd(
                Recorded([g EXCEPT !.cachedPrice = price, !.cacheTime = k.tnow],
                         Call(k, seen, price, FALSE)),
                k, price)
        ELSE IF k.term < Len(searchTermsGroup)
        THEN R(g, [k EXCEPT !.term = @ + 1, !.seen = seen,
                            !.reqs = Requested(@, searchTermsGroup[k.term + 1])])
        ELSE GroupAfterUsd(Recorded(g, Call(k, seen, Null, FALSE)), k, Null)

(* line 163: getPriceWithINR *)
GroupGetPriceWithINR(g, k) == GroupGetDeepNodePrice(g, k)

(* lines 231-236 *)
GroupRegister(g, chat) ==
    IF Has(g.groupAlerts, chat) THEN g
    ELSE [g EXCEPT !.groupAlerts = Append(@, [id |-> chat, low |-> Null, high |-> Null])]

(* Faulty variant of GroupClear: only the low threshold is cleared *)
GroupClear_LowOnly(g, i) == [g EXCEPT !.groupAlerts[i].low = Null]

(* lines 369-370: /clear unsets both thresholds of the chat *)
GroupClear(g, i) ==
    [g EXCEPT !.groupAlerts[i].low = Null, !.groupAlerts[i].high = Null]

(* lines 218-410: the webhook handler up to its first await; chat is
   message.chat.id and text message.text *)
GroupHandle(g0, chat, text) ==
    IF text = <<>> THEN R(g0, Idle)
    ELSE
    LET g == GroupRegister(g0, chat)
        i == IndexOf(g.groupAlerts, chat)
        k == [Idle EXCEPT !.kind = "cmd", !.chat = chat]
        price == ParseFloat(SplitSecond(text))
    IN  IF text = Str_start THEN Reply(g, k, chat, "start", Null, Null)
        ELSE IF StartsWith(text, Str_setlow)
        THEN IF Rejected(price)
             THEN Reply(g, k, chat, "reject", Null, Null)
             ELSE GroupGetPriceWithINR(
                    Armed([g EXCEPT !.groupAlerts[i].low = Num(price.val)], chat, "low"),
                    [k EXCEPT !.cmd = "setlow", !.price = Num(price.val)])
        ELSE IF StartsWith(text, Str_sethigh)
        THEN IF Rejected(price)
             THEN Reply(g, k, chat, "reject", Null, Null)
             ELSE GroupGetPriceWithINR(
                    Armed([g EXCEPT !.groupAlerts[i].high = Num(price.val)], chat, "high"),
                    [k EXCEPT !.cmd = "sethigh", !.price = Num(price.val)])
        ELSE IF text = Str_price THEN GroupGetPriceWithINR(g, [k EXCEPT !.cmd = "price"])
        ELSE IF text = Str_status THEN GroupGetPriceWithINR(g, [k EXCEPT !.cmd = "status"])
        ELSE IF text = Str_inrrate THEN GroupGetUSDToINR(g, [k EXCEPT !.cmd = "inrrate"])
        ELSE IF text = Str_clear
        THEN Reply(GroupClear(g, i), k, chat, "cleared", Null, Null)
        ELSE IF text = Str_help THEN Reply(g, k, chat, "help", Null, Null)
        ELSE IF StartsWith(text, Str_slash)
        THEN Reply(g, k, chat, "unknown", Null, Null)
        ELSE R(g, Idle)

---------------------------------------------------------------------------
(* Single-chat DexScreener variant: src/unnamed/part_000 lines 442-851 *)

(* lines 647-660: the high check of the cron callback *)
DexTickHigh(g, k) ==
    IF Truthy(g.highPriceAlert) /\ Val(k.usd) >= Val(g.highPriceAlert)
    THEN Send(g, k, "sendHigh", CHAT_ID, "high", Null, Null)
    ELSE R(g, Idle)

(* Faulty variant of DexTickEvaluate: a price equal to the low threshold
   sends no alert *)
DexTickEvaluate_StrictlyBelow(g, k) ==
    IF k.usd = Null THEN R(g, Idle)
    ELSE IF Truthy(g.lowPriceAlert) /\ Val(k.usd) < Val(g.lowPriceAlert)
    THEN Send(g, k, "sendLow", CHAT_ID, "low", Null, Null)
    ELSE DexTickHigh(g, k)

(* lines 623-645: the cron callback after await getDeepNodePrice() *)
DexTickEvaluate(g, k) ==
    IF k.usd = Null THEN R(g, Idle)
    ELSE IF Truthy(g.lowPriceAlert) /\ Val(k.usd) <= Val(g.lowPriceAlert)
    THEN Send(g, k, "sendLow", CHAT_ID, "low", Null, Null)
    ELSE DexTickHigh(g, k)

(* Faulty variant of DexTickAfterLow: the threshold is cleared whatever the
   send returned *)
DexTickAfterLow_ClearsAlways(g, k, success) ==
    LET g1 == Delivered(g, CHAT_ID, "low", success, k.msg.stale)
    IN  DexTickHigh([g1 EXCEPT !.lowPriceAlert = Null],
                    [k EXCEPT !.msg = NoMsg, !.success = IF success THEN "yes" ELSE "no"])

(* lines 641-645: the low alert's send has returned success *)
DexTickAfterLow(g, k, success) ==
    LET g1 == Delivered(g, CHAT_ID, "low", success, k.msg.stale)
        g2 == IF success THEN [g1 EXCEPT !.lowPriceAlert = Null] ELSE g1
    IN  DexTickHigh(g2, [k EXCEPT !.msg = NoMsg,
                                  !.success = IF success THEN "yes" ELSE "no"])

(* lines 656-660: the high alert's send has returned success *)
DexTickAfterHigh(g, k, success) ==
    LET g1 == Delivered(g, CHAT_ID, "high", success, k.msg.stale)
        g2 == IF success THEN [g1 EXCEPT !.highPriceAlert = Null] ELSE g1
    IN  R(g2, Idle)

(* The webhook handler after await getDeepNodePrice():
   lines 699-703, 715-719 (/setlow, /sethigh), 726-737 (/price), 743-749 (/status) *)
DexAfterPrice(g, k) ==
    CASE k.cmd = "setlow" -> Reply(g, k, CHAT_ID, "lowset", Null, Null)
      [] k.cmd = "sethigh" -> Reply(g, k, CHAT_ID, "highset", Null, Null)
      [] k.cmd = "price" ->
            IF Truthy(k.usd) THEN Reply(g, k, CHAT_ID, "price", Null, Null)
            ELSE Reply(g, k, CHAT_ID, "noprice", Null, Null)
      [] k.cmd = "status" ->
            Reply(g, k, CHAT_ID, "status",
                  IF Truthy(g.lowPriceAlert) THEN g.lowPriceAlert ELSE Null,
                  IF Truthy(g.highPriceAlert) THEN g.highPriceAlert ELSE Null)

(* getDeepNodePrice has returned usd to its caller *)
DexAfterUsd(g, k0, usd) ==
    LET k == [k0 EXCEPT !.usd = usd, !.tnow = 0, !.term = 0, !.best = Null,
                        !.reqs = <<>>, !.seen = {}]
    IN  IF k.kind = "tick" THEN DexTickEvaluate(g, k) ELSE DexAfterPrice(g, k)

(* lines 545-559: the filter of data.pairs. A priceUsd that parses to NaN
   passes the comparisons of line 548 *)
DexValid(p) ==
    /\ p.priceUsd # <<>>
    /\ LET price == ParseFloat(p.priceUsd)
       IN  price.nan \/ ~(price.val <= 0 \/ price.val > MaxSanePrice)
    /\ p.deep

DexValidSeen(ps) == { PairOf(ps[i]) : i \in { j \in 1..Len(ps) : DexValid(ps[j]) } }

(* lines 567-573: validPairs[0] after the stable sort by liquidity, highest
   first, as an index of ps; 0 when no pair is valid *)
DexBest(ps) ==
    LET valid == { i \in 1..Len(ps) : DexValid(ps[i]) }
    IN  IF valid = {} THEN 0
        ELSE CHOOSE i \in valid :
                /\ \A j \in valid : ps[j].liq <= ps[i].liq
                /\ \A j \in valid : j < i => ps[j].liq < ps[i].liq

(* line 577: bestPairInfo.liquidity is the string toFixed(2) gives, whose .usd
   is undefined, so (bestPairInfo?.liquidity?.usd || 0) is 0 *)
InfoLiquidityUsd == 0

(* lines 574-588: bestPrice after the term's best pair p; NaN is kept as null,
   like which lines 577 and 593 read it *)
DexUpdate(best, p) ==
    LET price == ParseFloat(p.priceUsd) IN
    IF ~Truthy(best) \/ p.liq > InfoLiquidityUsd
    THEN IF price.nan THEN Null ELSE Num(price.val)
    ELSE best

(* lines 491-500: getDeepNodePrice up to its first fetch *)
DexGetDeepNodePrice(g, k) ==
    IF Truthy(g.cachedPrice) /\ (g.now - g.cacheTime) < CACHE_DURATION
    THEN DexAfterUsd(Recorded(g, Call([k EXCEPT !.tnow = g.now], {}, g.cachedPrice, TRUE)),
                     k, g.cachedPrice)
    ELSE R(g, [k EXCEPT !.pc = "price", !.tnow = g.now, !.term = 1,
                        !.reqs = Requested(<<>>, searchTermsDex[1])])

(* lines 516-614: the search for searchTerms[k.term] has answered *)
DexOnFetch(g, k, resp) ==
    LET i == IF resp.status = "ok" THEN DexBest(resp.pairs) ELSE 0
        best == IF i = 0 THEN k.best ELSE DexUpdate(k.best, resp.pairs[i])
        seen == IF resp.status = "ok" /\ audit = "pairs"
                THEN k.seen \cup DexValidSeen(resp.pairs) ELSE k.seen
    IN  IF resp.status = "throw"
        THEN DexAfterUsd(Recorded(g, Call(k, seen, Null, FALSE)), k, Null)
        ELSE IF k.term < Len(searchTermsDex)
        THEN R(g, [k EXCEPT !.term = @ + 1, !.best = best, !.seen = seen,
                            !.reqs = Requested(@, searchTermsDex[k.term + 1])])
        ELSE IF Truthy(best)
        THEN DexAfterUsd(
                Recorded([g EXCEPT !.cachedPrice = best, !.cacheTime = k.tnow],
                         Call(k, seen, best, FALSE)),
                k, best)
        ELSE DexAfterUsd(Recorded(g, Call(k, seen, Null, FALSE)), k, Null)

(* req.body.message?.chat?.id of a message without a chat id *)
NoChat == 0

(* Faulty variant of Unauthorized: every chat is answered *)
Unauthorized_Nobody(chat) == FALSE

(* dex, line 670: chatId.toString() !== CHAT_ID.toString(), which throws into
   the handler's catch for a message without a chat id; cg, line 113 of
   index.js: chatId != CHAT_ID *)
Unauthorized(chat) == chat = NoChat \/ chat # CHAT_ID

(* lines 664-798: the webhook handler up to its first await; chat is
   message.chat.id and text message.text *)
DexHandle(g, chat, text) ==
    LET k == [Idle EXCEPT !.kind = "cmd", !.chat = chat]
        price == ParseFloat(SplitSecond(text))
    IN  IF text = <<>> \/ Unauthorized(chat) THEN R(g, Idle)
        ELSE IF text = Str_start THEN Reply(g, k, CHAT_ID, "start", Null, Null)
        ELSE IF StartsWith(text, Str_setlow)
        THEN IF Rejected(price)
             THEN Reply(g, k, CHAT_ID, "reject", Null, Null)
             ELSE DexGetDeepNodePrice(
                    Armed([g EXCEPT !.lowPriceAlert = Num(price.val)], CHAT_ID, "low"),
                    [k EXCEPT !.cmd = "setlow"])
        ELSE IF StartsWith(text, Str_sethigh)
        THEN IF Rejected(price)
             THEN Reply(g, k, CHAT_ID, "reject", Null, Null)
             ELSE DexGetDeepNodePrice(
                    Armed([g EXCEPT !.highPriceAlert = Num(price.val)], CHAT_ID, "high"),
                    [k EXCEPT !.cmd = "sethigh"])
        ELSE IF text = Str_price THEN DexGetDeepNodePrice(g, [k EXCEPT !.cmd = "price"])
        ELSE IF text = Str_status THEN DexGetDeepNodePrice(g, [k EXCEPT !.cmd = "status"])
        ELSE IF text = Str_help THEN Reply(g, k, CHAT_ID, "help", Null, Null)
        ELSE IF text = Str_info THEN Reply(g, k, CHAT_ID, "info", Null, Null)
        ELSE IF StartsWith(text, Str_slash)
        THEN Reply(g, k, CHAT_ID, "unknown", Null, Null)
        ELSE R(g, Idle)

---------------------------------------------------------------------------
(* Single-chat CoinGecko variant: src/index.js *)

(* What the CoinGecko price endpoint can answer; usd is data.deepbook.usd *)
CgResponses ==
    { [status |-> "throw", usd |-> Null], [status |-> "notok", usd |-> Null],
      [status |-> "ok", usd |-> Null], [status |-> "ok", usd |-> Num(0)],
      [status |-> "ok", usd |-> Num(1)], [status |-> "ok", usd |-> Num(2)],
      [status |-> "ok", usd |-> Num(3)] }

(* lines 46-67: getDeepNodePrice once the fetch has answered *)
CgPrice(resp) ==
    IF resp.status # "ok" \/ ~Truthy(resp.usd) THEN Null ELSE resp.usd

(* lines 95-104 *)
CgTickHigh(g, k) ==
    IF Truthy(g.highPriceAlert) /\ Val(k.usd) >= Val(g.highPriceAlert)
    THEN Send(g, k, "sendHigh", CHAT_ID, "high", Null, Null)
    ELSE R(g, Idle)

(* lines 73-93: the cron callback after await getDeepNodePrice() *)
CgTickEvaluate(g, k) ==
    IF k.usd = Null THEN R(g, Idle)
    ELSE IF Truthy(g.lowPriceAlert) /\ Val(k.usd) <= Val(g.lowPriceAlert)
    THEN Send(g, k, "sendLow", CHAT_ID, "low", Null, Null)
    ELSE CgTickHigh(g, k)

(* Faulty variant of CgTickAfterLow: the callback ends after the low alert *)
CgTickAfterLow_EndsTick(g, k, ok) ==
    LET g1 == Delivered(g, CHAT_ID, "low", ok, k.msg.stale)
    IN  R([g1 EXCEPT !.lowPriceAlert = Null], Idle)

(* lines 91-93: the low alert's send has returned; ok is Telegram's data.ok,
   which sendTelegramMessage only logs *)
CgTickAfterLow(g, k, ok) ==
    LET g1 == Delivered(g, CHAT_ID, "low", ok, k.msg.stale)
    IN  CgTickHigh([g1 EXCEPT !.lowPriceAlert = Null], [k EXCEPT !.msg = NoMsg])

(* lines 102-104 *)
CgTickAfterHigh(g, k, ok) ==
    LET g1 == Delivered(g, CHAT_ID, "high", ok, k.msg.stale)
    IN  R([g1 EXCEPT !.highPriceAlert = Null], Idle)

(* lines 108-188: the webhook handler up to its first await *)
CgHandle(g, chat, text) ==
    LET k == [Idle EXCEPT !.kind = "cmd", !.chat = chat]
        price == ParseFloat(SplitSecond(text))
    IN  IF text = <<>> \/ Unauthorized(chat) THEN R(g, Idle)
        ELSE IF text = Str_start THEN Reply(g, k, CHAT_ID, "start", Null, Null)
        ELSE IF StartsWith(text, Str_setlow)
        THEN IF Rejected(price)
             THEN Reply(g, k, CHAT_ID, "reject", Null, Null)
             ELSE Reply(Armed([g EXCEPT !.lowPriceAlert = Num(price.val)], CHAT_ID, "low"),
                        k, CHAT_ID, "lowset", Null, Null)
        ELSE IF StartsWith(text, Str_sethigh)
        THEN IF Rejected(price)
             THEN Reply(g, k, CHAT_ID, "reject", Null, Null)
             ELSE Reply(Armed([g EXCEPT !.highPriceAlert = Num(price.val)], CHAT_ID, "high"),
                        k, CHAT_ID, "highset", Null, Null)
        ELSE IF text = Str_status
        THEN Reply(g, k, CHAT_ID, "status",
                   IF Truthy(g.lowPriceAlert) THEN g.lowPriceAlert ELSE Null,
                   IF Truthy(g.highPriceAlert) THEN g.highPriceAlert ELSE Null)
        ELSE IF text = Str_help THEN Reply(g, k, CHAT_ID, "help", Null, Null)
        ELSE IF StartsWith(text, Str_slash)
        THEN Reply(g, k, CHAT_ID, "unknown", Null, Null)
        ELSE R(g, Idle)

---------------------------------------------------------------------------
(* Actions *)

(* The environment check: part_000 lines 22-26 (group) and 463-466 (dex),
   index.js lines 16-21 (cg) *)
EnvCheck_TokenOnly(v, env) == ~env.token

EnvCheck(v, env) ==
    IF v = "group" THEN ~env.token ELSE ~env.token \/ ~env.chat

(* The program once its module has been loaded in an environment of envs *)
Boot(variants, history, envs) ==
    /\ variant \in variants
    /\ credentials \in envs
    /\ exited = EnvCheck(variant, credentials)
    /\ now = 0
    /\ groupAlerts = <<>>
    /\ lowPriceAlert = Null
    /\ highPriceAlert = Null
    /\ cachedPrice = Null
    /\ cacheTime = 0
    /\ cachedINRRate = Null
    /\ inrCacheTime = 0
    /\ tasks = [t \in TaskIds |-> Idle]
    /\ fired = [c \in Chats |-> [low |-> 0, high |-> 0]]
    /\ audit = history
    /\ calls = <<>>

(* The program started with its credentials set *)
Start(variants, history) == Boot(variants, history, {[token |-> TRUE, chat |-> TRUE]})

Init == Start(Variants, "off")

(* node-cron runs the callback at the start of every minute, whether or not an
   earlier run has returned; the run takes the first free task *)
TickRank(t) == IF t = "t1" THEN 1 ELSE 2
FirstFree(ts, t) ==
    /\ tasks[t].pc = "idle"
    /\ \A u \in ts : tasks[u].pc = "idle" => TickRank(t) <= TickRank(u)
AtNextMinute == [Globals EXCEPT !.now = now + 1]
TickTask == [Idle EXCEPT !.kind = "tick"]

GroupCron(ts, t) ==
    /\ variant = "group" /\ now < MaxTime /\ FirstFree(ts, t)
    /\ Becomes(t, GroupGetPriceWithINR(AtNextMinute, TickTask))

DexCron(ts, t) ==
    /\ variant = "dex" /\ now < MaxTime /\ FirstFree(ts, t)
    /\ Becomes(t, DexGetDeepNodePrice(AtNextMinute, TickTask))

CgCron(ts, t) ==
    /\ variant = "cg" /\ now < MaxTime /\ FirstFree(ts, t)
    /\ Becomes(t, R(AtNextMinute, [TickTask EXCEPT !.pc = "price"]))

(* POST /telegram *)
GroupWebhook(h, chat, text) ==
    /\ variant = "group" /\ tasks[h].pc = "idle"
    /\ Becomes(h, GroupHandle(Globals, chat, text))

DexWebhook(h, chat, text) ==
    /\ variant = "dex" /\ tasks[h].pc = "idle"
    /\ Becomes(h, DexHandle(Globals, chat, text))

CgWebhook(h, chat, text) ==
    /\ variant = "cg" /\ tasks[h].pc = "idle"
    /\ Becomes(h, CgHandle(Globals, chat, text))

(* A DexScreener search answers *)
GroupFetched(t, resp) ==
    /\ variant = "group" /\ tasks[t].pc = "price"
    /\ Becomes(t, GroupOnFetch(Globals, tasks[t], resp))

DexFetched(t, resp) ==
    /\ variant = "dex" /\ tasks[t].pc = "price"
    /\ Becomes(t, DexOnFetch(Globals, tasks[t], resp))

(* CoinGecko answers the cron callback *)
CgFetched(t, resp) ==
    /\ variant = "cg" /\ tasks[t].pc = "price"
    /\ Becomes(t, CgTickEvaluate(Globals, [tasks[t] EXCEPT !.usd = CgPrice(resp)]))

(* An exchange-rate API answers *)
GroupRated(t, resp) ==
    /\ variant = "group" /\ tasks[t].pc = "rate"
    /\ Becomes(t, GroupOnRate(Globals, tasks[t], resp))

(* Telegram answers the sendMessage of an alert; ok is data.ok *)
GroupLowSent(t, ok) ==
    /\ variant = "group" /\ tasks[t].pc = "sendLow"
    /\ Becomes(t, GroupTickAfterLow(Globals, tasks[t], ok))

GroupHighSent(t, ok) ==
    /\ variant = "group" /\ tasks[t].pc = "sendHigh"
    /\ Becomes(t, GroupTickAfterHigh(Globals, tasks[t], ok))

DexLowSent(t, ok) ==
    /\ variant = "dex" /\ tasks[t].pc = "sendLow"
    /\ Becomes(t, DexTickAfterLow(Globals, tasks[t], ok))

DexHighSent(t, ok) ==
    /\ variant = "dex" /\ tasks[t].pc = "sendHigh"
    /\ Becomes(t, DexTickAfterHigh(Globals, tasks[t], ok))

CgLowSent(t, ok) ==
    /\ variant = "cg" /\ tasks[t].pc = "sendLow"
    /\ Becomes(t, CgTickAfterLow(Globals, tasks[t], ok))

CgHighSent(t, ok) ==
    /\ variant = "cg" /\ tasks[t].pc = "sendHigh"
    /\ Becomes(t, CgTickAfterHigh(Globals, tasks[t], ok))

(* Telegram answers the sendMessage of a reply; the handler ends *)
Replied(h) ==
    /\ tasks[h].pc = "reply"
    /\ Becomes(h, R(Globals, Idle))

(* The program in an environment: the cron callbacks ts and webhook handlers hs
   that can be in progress together, the chats and texts of the webhook
   messages, and the answers of the price and exchange-rate providers *)
GroupEnvironment(ts, hs, chats, texts, resps, rates) ==
    \/ \E t \in ts : GroupCron(ts, t)
    \/ \E h \in hs, chat \in chats, text \in texts : GroupWebhook(h, chat, text)
    \/ \E t \in ts \cup hs, resp \in resps : GroupFetched(t, resp)
    \/ \E t \in ts \cup hs, resp \in rates : GroupRated(t, resp)
    \/ \E t \in ts, ok \in BOOLEAN : GroupLowSent(t, ok)
    \/ \E t \in ts, ok \in BOOLEAN : GroupHighSent(t, ok)
    \/ \E h \in hs : Replied(h)

DexEnvironment(ts, hs, chats, texts, resps) ==
    \/ \E t \in ts : DexCron(ts, t)
    \/ \E h \in hs, chat \in chats, text \in texts : DexWebhook(h, chat, text)
    \/ \E t \in ts \cup hs, resp \in resps : DexFetched(t, resp)
    \/ \E t \in ts, ok \in BOOLEAN : DexLowSent(t, ok)
    \/ \E t \in ts, ok \in BOOLEAN : DexHighSent(t, ok)
    \/ \E h \in hs : Replied(h)

CgEnvironment(ts, hs, chats, texts) ==
    \/ \E t \in ts : CgCron(ts, t)
    \/ \E h \in hs, chat \in chats, text \in texts : CgWebhook(h, chat, text)
    \/ \E t \in ts, resp \in CgResponses : CgFetched(t, resp)
    \/ \E t \in ts, ok \in BOOLEAN : CgLowSent(t, ok)
    \/ \E t \in ts, ok \in BOOLEAN : CgHighSent(t, ok)
    \/ \E h \in hs : Replied(h)

Next ==
    \/ GroupEnvironment({"t1"}, {"h1"}, {CHAT_ID}, Texts, FewResponses, RateUp)
    \/ DexEnvironment({"t1"}, {"h1"}, Chats, Texts, FewResponses)
    \/ CgEnvironment({"t1"}, {"h1"}, Chats, Texts)

Spec == Init /\ [][Next]_vars

(* The per-group variant with two cron callbacks that can be in progress
   together, and the history of the alerts delivered *)
OverlapTexts == { Str_setlow \o <<" ", "2">>, Str_sethigh \o <<" ", "2">> }

InitOverlap == Start({"group"}, "alerts")
NextOverlap == GroupEnvironment(Ticks, {"h1"}, {CHAT_ID}, OverlapTexts, FewResponses, RateUp)
SpecOverlap == InitOverlap /\ [][NextOverlap]_vars

(* The per-group variant with two chats *)
GroupsTexts == OverlapTexts \cup {Str_clear}

InitGroups == Start({"group"}, "off")
NextGroups == GroupEnvironment({"t1"}, {"h1"}, Chats, GroupsTexts, FewResponses, RateUp)
SpecGroups == InitGroups /\ [][NextGroups]_vars

(* The three variants with providers that can fail in every way, where every
   request a cron callback awaits is answered in the end *)
InitTicks == Start(Variants, "off")
NextTicks ==
    \/ GroupEnvironment({"t1"}, {"h1"}, {CHAT_ID}, OverlapTexts, FewResponses, RateResponses)
    \/ DexEnvironment({"t1"}, {"h1"}, {CHAT_ID}, OverlapTexts, FewResponses)
    \/ CgEnvironment({"t1"}, {"h1"}, {CHAT_ID}, OverlapTexts)
TickAnswered(t) ==
    \/ \E resp \in FewResponses : GroupFetched(t, resp) \/ DexFetched(t, resp)
    \/ \E resp \in CgResponses : CgFetched(t, resp)
    \/ \E resp \in RateResponses : GroupRated(t, resp)
    \/ \E ok \in BOOLEAN : GroupLowSent(t, ok) \/ GroupHighSent(t, ok)
    \/ \E ok \in BOOLEAN : DexLowSent(t, ok) \/ DexHighSent(t, ok)
    \/ \E ok \in BOOLEAN : CgLowSent(t, ok) \/ CgHighSent(t, ok)
SpecTicks == InitTicks /\ [][NextTicks]_vars /\ WF_vars(TickAnswered("t1"))

(* The three variants with a low threshold of 1 or 2, a high threshold of 2
   or 3, and prices of 1, 2 and 3 *)
AlertTexts ==
    { Str_setlow \o <<" ", "1">>, Str_setlow \o <<" ", "2">>,
      Str_sethigh \o <<" ", "2">>, Str_sethigh \o <<" ", "3">> }
AlertResponses == {Throw} \cup { Ok(<<OnePair(s)>>) : s \in { <<"1">>, <<"2">>, <<"3">> } }

InitAlerts == Start(Variants, "off")
NextAlerts ==
    \/ GroupEnvironment({"t1"}, {"h1"}, {CHAT_ID}, AlertTexts, AlertResponses, RateUp)
    \/ DexEnvironment({"t1"}, {"h1"}, {CHAT_ID}, AlertTexts, AlertResponses)
    \/ CgEnvironment({"t1"}, {"h1"}, {CHAT_ID}, AlertTexts)
SpecAlerts == InitAlerts /\ [][NextAlerts]_vars

(* The single-chat variants with messages of the authorized chat, of another
   chat and without a chat id *)
Senders == Chats \cup {NoChat}

InitChats == Start({"dex", "cg"}, "off")
NextChats ==
    \/ DexEnvironment({"t1"}, {"h1"}, Senders, Texts, FewResponses)
    \/ CgEnvironment({"t1"}, {"h1"}, Senders, Texts)
SpecChats == InitChats /\ [][NextChats]_vars

(* The three variants with messages that start with '/': commands of some
   variant only, a word that is no command, /setlow and /sethigh, and a word
   that /setlow begins *)
SlashTexts ==
    { Str_price, Str_clear, Str_info, <<"/", "f", "o", "o">>,
      Str_setlow \o <<" ", "2">>, Str_sethigh \o <<" ", "2">>,
      Str_setlow \o <<"x", " ", "2">> }

InitSlash == Start(Variants, "off")
NextSlash ==
    \/ GroupEnvironment({"t1"}, {"h1"}, {CHAT_ID}, SlashTexts, AlertResponses, RateUp)
    \/ DexEnvironment({"t1"}, {"h1"}, {CHAT_ID}, SlashTexts, AlertResponses)
    \/ CgEnvironment({"t1"}, {"h1"}, {CHAT_ID}, SlashTexts)
SpecSlash == InitSlash /\ [][NextSlash]_vars

(* The per-group variant with two webhook handlers that can be in progress
   together and /setlow, /sethigh of two values *)
CommandTexts ==
    { cmd \o <<" ">> \o a : cmd \in {Str_setlow, Str_sethigh}, a \in { <<"2">>, <<"3">> } }

InitCommands == Start({"group"}, "off")
NextCommands ==
    \/ \E h \in TwoHandlers, text \in CommandTexts : GroupWebhook(h, CHAT_ID, text)
    \/ \E h \in TwoHandlers, resp \in FewResponses : GroupFetched(h, resp)
    \/ \E h \in TwoHandlers, resp \in RateUp : GroupRated(h, resp)
    \/ \E h \in TwoHandlers : Replied(h)
SpecCommands == InitCommands /\ [][NextCommands]_vars

(* The three variants started in every environment *)
Environments == [token : BOOLEAN, chat : BOOLEAN]

InitStartup == Boot(Variants, "off", Environments)
SpecStartup == InitStartup /\ [][NextTicks]_vars

(* The price adapters of the two DexScreener variants, called by the cron
   callback, with responses of up to MaxPairs pairs and the history of the
   latest call *)
AdapterPairs == [priceUsd : { <<"0">>, <<"1">>, <<"2">> }, liq : {1, 2}, deep : {TRUE}]
AdapterResponses ==
    {Throw, NotOk} \cup { Ok(ps) : ps \in UNION { [1..m -> AdapterPairs] : m \in 0..MaxPairs } }

InitAdapter == Start({"group", "dex"}, "pairs")
NextAdapter ==
    \/ GroupCron({"t1"}, "t1")
    \/ \E resp \in AdapterResponses : GroupFetched("t1", resp)
    \/ \E resp \in RateUp : GroupRated("t1", resp)
    \/ DexCron({"t1"}, "t1")
    \/ \E resp \in AdapterResponses : DexFetched("t1", resp)
SpecAdapter == InitAdapter /\ [][NextAdapter]_vars

(* The price cache of the two DexScreener variants, with the cron callback
   and /price as callers that can be in progress together, and the history of
   the latest MaxCalls calls *)
CacheResponses == {Throw, Ok(<<>>), Ok(<<OnePair(<<"1">>)>>)}

InitCache == Start({"group", "dex"}, "requests")
NextCache ==
    \/ GroupCron({"t1"}, "t1")
    \/ GroupWebhook("h1", CHAT_ID, Str_price)
    \/ \E t \in {"t1", "h1"}, resp \in CacheResponses : GroupFetched(t, resp)
    \/ \E t \in {"t1", "h1"}, resp \in RateUp : GroupRated(t, resp)
    \/ DexCron({"t1"}, "t1")
    \/ DexWebhook("h1", CHAT_ID, Str_price)
    \/ \E t \in {"t1", "h1"}, resp \in CacheResponses : DexFetched(t, resp)
    \/ Replied("h1")
SpecCache == InitCache /\ [][NextCache]_vars

---------------------------------------------------------------------------
(* Properties *)

(* The thresholds of a chat; null for a chat the group variant has no entry for *)
ThresholdLow(ga, c) == IF Has(ga, c) THEN ga[IndexOf(ga, c)].low ELSE Null
ThresholdHigh(ga, c) == IF Has(ga, c) THEN ga[IndexOf(ga, c)].high ELSE Null

(* A string that is a number as a whole: an optional sign, then digits only *)
IsNumeral(s) ==
    LET body == IF s # <<>> /\ Head(s) \in {"-", "+"} THEN Tail(s) ELSE s
    IN  body # <<>> /\ \A i \in 1..Len(body) : body[i] \in DigitChars
NumeralValue(s) == ParseFloat(s).val

(* The argument of a /setlow or /sethigh message is missing, non-numeric, zero
   or negative *)
InvalidArgument(text) ==
    LET arg == SplitSecond(text)
    IN  arg = Undefined \/ ~IsNumeral(arg) \/ NumeralValue(arg) <= 0

IsSetCommand(text) == StartsWith(text, Str_setlow) \/ StartsWith(text, Str_sethigh)

(* The search for the last term of the group variant's call k answers resp,
   and the call returns null *)
GroupReturnsNull(k, resp) ==
    /\ k.term = Len(searchTermsGroup)
    /\ resp.status # "ok" \/ \A i \in 1..Len(resp.pairs) : ~GroupValid(resp.pairs[i])

(* What the dex variant's call k does when resp answers its request: it goes
   on with the next term (done is FALSE), or returns usd *)
DexReturn(k, resp) ==
    LET i == IF resp.status = "ok" THEN DexBest(resp.pairs) ELSE 0
        best == IF i = 0 THEN k.best ELSE DexUpdate(k.best, resp.pairs[i])
    IN  IF resp.status = "throw" THEN [done |-> TRUE, usd |-> Null]
        ELSE IF k.term < Len(searchTermsDex) THEN [done |-> FALSE, usd |-> Null]
        ELSE [done |-> TRUE, usd |-> IF Truthy(best) THEN best ELSE Null]

(* C1 (per-group variant), as the claim states it: when the send of an alert
   fails, the threshold the alert is about keeps its value. *)
C1_GroupFailedSendKeepsThreshold ==
    [][\A t \in Ticks :
         /\ GroupLowSent(t, FALSE) =>
                groupAlerts'[tasks[t].idx].low = groupAlerts[tasks[t].idx].low
         /\ GroupHighSent(t, FALSE) =>
                groupAlerts'[tasks[t].idx].high = groupAlerts[tasks[t].idx].high]_vars

(* C3 (all variants): a run of the cron callback whose price is null, from the
   step in which the price source returns null onwards, sends no alert and
   leaves every threshold as it was. *)
C3_NullPriceTickChangesNothing ==
    [][\A t \in Ticks :
         ( \/ /\ tasks[t].pc = "price"
              /\ \/ \E resp \in FewResponses :
                       GroupReturnsNull(tasks[t], resp) /\ GroupFetched(t, resp)
                 \/ \E resp \in FewResponses :
                       /\ DexReturn(tasks[t], resp) = [done |-> TRUE, usd |-> Null]
                       /\ DexFetched(t, resp)
                 \/ \E resp \in CgResponses : CgPrice(resp) = Null /\ CgFetched(t, resp)
           \/ /\ tasks[t].pc = "rate" /\ tasks[t].usd = Null
              /\ \E resp \in RateResponses : GroupRated(t, resp) )
         => /\ UNCHANGED <<groupAlerts, lowPriceAlert, highPriceAlert>>
            /\ tasks'[t].pc \notin {"sendLow", "sendHigh"}
            /\ tasks'[t].msg = NoMsg]_vars

(* A cron callback of the group variant has got a null price while a threshold
   is set, and waits for the exchange rate *)
C3_Witness ==
    /\ variant = "group"
    /\ \E t \in Ticks :
          /\ tasks[t].kind = "tick" /\ tasks[t].pc = "rate" /\ tasks[t].usd = Null
    /\ \E i \in 1..Len(groupAlerts) : groupAlerts[i].low # Null

(* C4 (dex variant): a failed send leaves the threshold set and a successful
   one sets it to null; a cron callback whose price crosses a threshold that
   is set, as after a failed send, attempts the notification. *)
C4_DexThresholdClearedOnSuccessOnly ==
    [][\A t \in Ticks :
         /\ DexLowSent(t, FALSE) => lowPriceAlert' = lowPriceAlert
         /\ DexLowSent(t, TRUE) => lowPriceAlert' = Null
         /\ DexHighSent(t, FALSE) => highPriceAlert' = highPriceAlert
         /\ DexHighSent(t, TRUE) => highPriceAlert' = Null
         /\ (DexLowSent(t, TRUE) \/ DexLowSent(t, FALSE)) =>
                highPriceAlert' = highPriceAlert
         /\ (DexHighSent(t, TRUE) \/ DexHighSent(t, FALSE)) =>
                lowPriceAlert' = lowPriceAlert
         /\ \A resp \in FewResponses :
              LET ret == DexReturn(tasks[t], resp) IN
              DexFetched(t, resp) /\ ret.done /\ ret.usd # Null =>
                 /\ Truthy(lowPriceAlert) /\ Val(ret.usd) <= Val(lowPriceAlert) =>
                       tasks'[t].pc = "sendLow" /\ tasks'[t].msg.to = CHAT_ID
                 /\ ~(Truthy(lowPriceAlert) /\ Val(ret.usd) <= Val(lowPriceAlert))
                    /\ Truthy(highPriceAlert) /\ Val(ret.usd) >= Val(highPriceAlert) =>
                       tasks'[t].pc = "sendHigh" /\ tasks'[t].msg.to = CHAT_ID
         /\ (\E ts \in SUBSET Ticks : DexCron(ts, t))
            /\ Truthy(cachedPrice) /\ now' - cacheTime < CACHE_DURATION
            /\ Truthy(lowPriceAlert) /\ Val(cachedPrice) <= Val(lowPriceAlert) =>
                 tasks'[t].pc = "sendLow" /\ tasks'[t].msg.to = CHAT_ID]_vars

(* The send of the low alert has failed and the low threshold is still set,
   while the callback sends the high alert *)
C4_Witness ==
    /\ variant = "dex"
    /\ \E t \in Ticks :
          /\ tasks[t].pc = "sendHigh" /\ tasks[t].success = "no"
          /\ Truthy(lowPriceAlert) /\ Val(tasks[t].usd) <= Val(lowPriceAlert)

(* The webhook request of handler h is a message of chat with text that the
   program handles *)
Handles(h, chat, text) ==
    \/ GroupWebhook(h, chat, text)
    \/ chat = CHAT_ID /\ (DexWebhook(h, chat, text) \/ CgWebhook(h, chat, text))

(* C6 (all variants), as the claim states it: a /setlow or /sethigh whose
   argument is missing, non-numeric, zero or negative leaves both thresholds
   as they were and is answered by one rejection reply. *)
C6_InvalidArgumentRejected ==
    [][\A h \in Handlers, chat \in Chats, text \in Texts :
         Handles(h, chat, text) /\ IsSetCommand(text) /\ InvalidArgument(text) =>
            /\ \A c \in Chats :
                  /\ ThresholdLow(groupAlerts', c) = ThresholdLow(groupAlerts, c)
                  /\ ThresholdHigh(groupAlerts', c) = ThresholdHigh(groupAlerts, c)
            /\ UNCHANGED <<lowPriceAlert, highPriceAlert>>
            /\ tasks'[h].pc = "reply"
            /\ tasks'[h].msg.kind = "reject" /\ tasks'[h].msg.to = chat]_vars

(* C7 (per-group variant): an accepted /setlow p sets the chat's low threshold
   to p and leaves its high threshold; /sethigh leaves the low threshold;
   /status leaves both and its reply reports the two as they are; no later
   step of a handler changes a threshold.
   So /status right after /setlow p reports low = p and high as before. *)
C7_SetlowThenStatus ==
    [][\A h \in Handlers, chat \in Chats :
         /\ \A text \in Texts :
              GroupWebhook(h, chat, text) =>
                /\ StartsWith(text, Str_setlow) =>
                      /\ ThresholdHigh(groupAlerts', chat) = ThresholdHigh(groupAlerts, chat)
                      /\ ~InvalidArgument(text) =>
                            ThresholdLow(groupAlerts', chat) = Num(NumeralValue(SplitSecond(text)))
                /\ StartsWith(text, Str_sethigh) =>
                      ThresholdLow(groupAlerts', chat) = ThresholdLow(groupAlerts, chat)
                /\ text = Str_status =>
                      /\ ThresholdLow(groupAlerts', chat) = ThresholdLow(groupAlerts, chat)
                      /\ ThresholdHigh(groupAlerts', chat) = ThresholdHigh(groupAlerts, chat)
         /\ variant = "group" /\ tasks[h].pc # "idle" /\ tasks'[h] # tasks[h] =>
                groupAlerts' = groupAlerts
         /\ variant = "group" /\ tasks'[h].msg.kind = "status" /\ tasks'[h] # tasks[h] =>
                /\ tasks'[h].msg.to = tasks'[h].chat
                /\ tasks'[h].msg.low = ThresholdLow(groupAlerts', tasks'[h].chat)
                /\ tasks'[h].msg.high = ThresholdHigh(groupAlerts', tasks'[h].chat)]_vars

(* The reply to /status reports the low threshold a /setlow has set and no
   high threshold *)
C7_Witness ==
    /\ variant = "group"
    /\ \E h \in Handlers :
          /\ tasks[h].pc = "reply" /\ tasks[h].msg.kind = "status"
          /\ tasks[h].msg.low = Num(2) /\ tasks[h].msg.high = Null
          /\ ThresholdLow(groupAlerts, tasks[h].chat) = Num(2)

(* C2 (per-group variant), as the claim states it: for one arming of a
   threshold at most one alert notification is delivered, also when two runs
   of the cron callback overlap. *)
C2_OneAlertPerArmedThreshold ==
    \A c \in Chats : fired[c].low <= 1 /\ fired[c].high <= 1

(* C5, as the claim states it: two getDeepNodePrice calls made less than
   CACHE_DURATION apart issue exactly one provider request between them. *)
C5_OneRequestPerCacheWindow ==
    \A i, j \in 1..Len(calls) :
        i < j /\ calls[j].start - calls[i].start < CACHE_DURATION
              /\ calls[i].start - calls[j].start < CACHE_DURATION
        => Len(calls[i].reqs) + Len(calls[j].reqs) = 1

(* C8 (dex variant), as the claim states it: a call that finds the cache
   stale returns a price whenever a response it has read holds a valid pair. *)
C8_DexPriceWheneverValidPair ==
    variant = "dex" =>
        \A i \in 1..Len(calls) :
            ~calls[i].cached /\ calls[i].seen # {} => calls[i].ret # Null

(* C9 (per-group variant): a call that finds no fresh cached price requests
   'deepnode', 'deep node', 'deep-book', 'deep book' in this order, each after
   the one before has given no valid pair or has failed; it requests no term
   after the one that gives a valid pair, whose price it returns; it returns
   null only after all four terms, none of which gave a valid pair. *)
C9_GroupTermsInOrder ==
    variant = "group" =>
        /\ \A t \in TaskIds :
              tasks[t].pc = "price" =>
                 /\ tasks[t].seen = {}
                 /\ tasks[t].term \in 1..Len(searchTermsGroup)
                 /\ tasks[t].reqs = SubSeq(searchTermsGroup, 1, tasks[t].term)
        /\ \A i \in 1..Len(calls) :
              LET c == calls[i] IN
              IF c.cached THEN c.reqs = <<>> /\ c.ret # Null
              ELSE /\ c.reqs # <<>>
                   /\ c.reqs = SubSeq(searchTermsGroup, 1, Len(c.reqs))
                   /\ c.ret = Null <=> c.seen = {}
                   /\ c.ret = Null => c.reqs = searchTermsGroup
                   /\ c.ret # Null => \E p \in c.seen : c.ret = Num(p.price)

(* A call has returned the price of the third term's pair, after a first term
   whose request failed and a second that gave no valid pair *)
C9_Witness ==
    /\ variant = "group"
    /\ \E i \in 1..Len(calls) :
          /\ calls[i].reqs = SubSeq(searchTermsGroup, 1, 3)
          /\ calls[i].ret = Num(2)
          /\ calls[i].seen # {}

(* C10 (both DexScreener variants), as the claim states it: the price a call
   returns is that of a pair of the highest liquidity among the valid pairs
   of the responses the call has read. *)
C10_PriceOfHighestLiquidity ==
    \A i \in 1..Len(calls) :
        ~calls[i].cached /\ calls[i].ret # Null =>
            \E p \in calls[i].seen :
                /\ calls[i].ret = Num(p.price)
                /\ \A q \in calls[i].seen : q.liq <= p.liq

(* C11 (per-group variant), as the claim states it: a message whose text does
   not start with '/' produces no outbound message and leaves the alert store
   as it was, the set of chats that have an entry included. *)
C11_PlainTextIgnored ==
    [][\A h \in Handlers, chat \in Chats, text \in Texts :
         GroupWebhook(h, chat, text) /\ text # <<>> /\ ~StartsWith(text, Str_slash) =>
            /\ groupAlerts' = groupAlerts
            /\ tasks'[h].pc = "idle"]_vars

(* The entries of the store in the opposite order of iteration *)
Reversed(ga) == [i \in 1..Len(ga) |-> ga[Len(ga) + 1 - i]]

(* The store after the part of a cron callback that starts in r has run to
   its end with no other callback in between, every send returning ok *)
RECURSIVE TickRun(_, _)
TickRun(r, ok) ==
    IF r.k.pc = "sendLow" THEN TickRun(GroupTickAfterLow(r.g, r.k, ok), ok)
    ELSE IF r.k.pc = "sendHigh" THEN TickRun(GroupTickAfterHigh(r.g, r.k, ok), ok)
    ELSE r.g.groupAlerts

(* The store after a cron callback has evaluated the store ga at price p *)
TickOn(ga, p, ok) ==
    TickRun(GroupTickEvaluate([Globals EXCEPT !.groupAlerts = ga],
                              [TickTask EXCEPT !.usd = Num(p)]), ok)

TickPrices == {1, 2, 3}

(* C12 (per-group variant): a command of a chat changes no threshold of
   another chat; a step of the cron callback changes no threshold but those
   of the chat it has sent an alert for, and sends the alert for an entry's
   threshold to that entry's chat; and the thresholds a cron callback leaves
   are the same when the chats are iterated in the opposite order. *)
C12_ChatsIndependent ==
    [][/\ \A h \in Handlers, chat \in Chats, text \in GroupsTexts :
             GroupWebhook(h, chat, text) =>
                \A c \in Chats \ {chat} :
                   /\ ThresholdLow(groupAlerts', c) = ThresholdLow(groupAlerts, c)
                   /\ ThresholdHigh(groupAlerts', c) = ThresholdHigh(groupAlerts, c)
       /\ \A t \in Ticks :
             variant = "group" /\ tasks'[t] # tasks[t] =>
                /\ \A c \in Chats :
                      ~(tasks[t].pc \in {"sendLow", "sendHigh"} /\ tasks[t].msg.to = c) =>
                         /\ ThresholdLow(groupAlerts', c) = ThresholdLow(groupAlerts, c)
                         /\ ThresholdHigh(groupAlerts', c) = ThresholdHigh(groupAlerts, c)
                /\ tasks'[t].pc \in {"sendLow", "sendHigh"} =>
                      /\ tasks'[t].idx \in 1..Len(groupAlerts')
                      /\ tasks'[t].msg.to = groupAlerts'[tasks'[t].idx].id
                      /\ tasks'[t].pc = "sendLow" =>
                            Truthy(ThresholdLow(groupAlerts', tasks'[t].msg.to))
                      /\ tasks'[t].pc = "sendHigh" =>
                            Truthy(ThresholdHigh(groupAlerts', tasks'[t].msg.to))
                /\ tasks[t].pc \in {"idle", "price", "rate"}
                   /\ tasks'[t].pc \notin {"price", "rate"} =>
                      \A p \in TickPrices, ok \in BOOLEAN :
                         LET one == TickOn(groupAlerts, p, ok)
                             other == TickOn(Reversed(groupAlerts), p, ok)
                         IN  \A c \in Chats :
                                /\ ThresholdLow(one, c) = ThresholdLow(other, c)
                                /\ ThresholdHigh(one, c) = ThresholdHigh(other, c)]_vars

(* The cron callback has sent the low alert of the second chat of the store
   while the first chat has a threshold set that the price has not crossed *)
C12_Witness ==
    /\ variant = "group" /\ Len(groupAlerts) = 2
    /\ \E t \in Ticks :
          /\ tasks[t].pc = "sendLow" /\ tasks[t].idx = 2
          /\ tasks[t].msg.to = groupAlerts[2].id
    /\ Truthy(groupAlerts[1].high) /\ ~Truthy(groupAlerts[1].low)

(* The next run of the cron callback starts *)
TickStarts == GroupCron({"t1"}, "t1") \/ DexCron({"t1"}, "t1") \/ CgCron({"t1"}, "t1")

(* C13 (all variants): whatever fails in a run of the cron callback (the
   price provider, a response without a usable price, the exchange-rate
   providers, the send of an alert), the run ends once its requests are
   answered, and the next run can start at its minute. *)
C13_FailuresNeverStopTicks ==
    /\ (tasks["t1"].pc # "idle") ~> (tasks["t1"].pc = "idle")
    /\ [](tasks["t1"].pc = "idle" /\ now < MaxTime => ENABLED TickStarts)

(* Every exchange-rate provider has failed during the first minute; the run
   of the cron callback of the second minute has fetched a price of its own
   and sends the low alert *)
C13_Witness ==
    /\ variant = "group" /\ now = 2
    /\ cachedINRRate = Num(FALLBACK_INR) /\ inrCacheTime = 1
    /\ cachedPrice # Null /\ cacheTime = 2
    /\ tasks["t1"].pc = "sendLow" /\ tasks["t1"].usd = cachedPrice

(* A threshold as the program may store it: null, or a number above 0 *)
ThresholdOk(v) == v = Null \/ (Len(v) = 1 /\ Val(v) \in Nat /\ Val(v) > 0)

(* C14 (all variants): every stored threshold is null or a number strictly
   greater than 0. *)
C14_ThresholdsNullOrPositive ==
    /\ ThresholdOk(lowPriceAlert) /\ ThresholdOk(highPriceAlert)
    /\ \A i \in 1..Len(groupAlerts) :
          ThresholdOk(groupAlerts[i].low) /\ ThresholdOk(groupAlerts[i].high)

(* A /setlow, /sethigh with an argument that is no number above 0 is being
   rejected while a threshold is stored *)
C14_Witness ==
    /\ \E h \in Handlers : tasks[h].pc = "reply" /\ tasks[h].msg.kind = "reject"
    /\ \/ lowPriceAlert = Num(2) /\ variant = "cg"
       \/ \E i \in 1..Len(groupAlerts) : groupAlerts[i].high = Num(2)

(* Another handler than h is suspended in a /setlow or /sethigh of chat *)
OtherSetting(h, chat, cmd) ==
    \E o \in TwoHandlers \ {h} :
        tasks[o].pc # "idle" /\ tasks[o].cmd = cmd /\ tasks[o].chat = chat

(* C15 (per-group variant): a valid /setlow p (/sethigh p) that arrives while
   another /setlow (/sethigh) of the same chat awaits I/O stores p and leaves
   the other field; no later step of either handler changes a threshold; so
   when both have finished the threshold is that of the command that arrived
   last. *)
C15_LastSetWins ==
    [][\A h \in TwoHandlers :
         /\ \A chat \in Chats, text \in CommandTexts :
               LET p == Num(NumeralValue(SplitSecond(text))) IN
               /\ GroupWebhook(h, chat, text) /\ StartsWith(text, Str_setlow)
                  /\ OtherSetting(h, chat, "setlow") =>
                     /\ ThresholdLow(groupAlerts', chat) = p
                     /\ ThresholdHigh(groupAlerts', chat) = ThresholdHigh(groupAlerts, chat)
               /\ GroupWebhook(h, chat, text) /\ StartsWith(text, Str_sethigh)
                  /\ OtherSetting(h, chat, "sethigh") =>
                     /\ ThresholdHigh(groupAlerts', chat) = p
                     /\ ThresholdLow(groupAlerts', chat) = ThresholdLow(groupAlerts, chat)
         /\ variant = "group" /\ tasks[h].pc # "idle" /\ tasks'[h] # tasks[h] =>
               groupAlerts' = groupAlerts]_vars

(* /setlow 3 has arrived while /setlow 2 awaited I/O; /setlow 3 has finished,
   /setlow 2 sends its reply, and the low threshold is 3 *)
C15_Witness ==
    /\ variant = "group"
    /\ \E h \in TwoHandlers :
          /\ tasks[h].pc = "reply" /\ tasks[h].msg.kind = "lowset"
          /\ tasks[h].msg.low = Num(2)
          /\ \A o \in TwoHandlers \ {h} : tasks[o].pc = "idle"
          /\ ThresholdLow(groupAlerts, tasks[h].chat) = Num(3)
          /\ ThresholdHigh(groupAlerts, tasks[h].chat) = Null

(* A credential the variant requires is absent *)
CredentialAbsent ==
    ~credentials.token \/ (variant \in {"dex", "cg"} /\ ~credentials.chat)

(* C16 (all variants): when BOT_TOKEN, or in the single-chat variants
   CHAT_ID, is absent at startup the process has exited: no run of the cron
   callback has started, no webhook message has been handled and no message
   is being sent. *)
C16_NoCredentialNoActivity ==
    CredentialAbsent =>
        /\ exited
        /\ now = 0
        /\ \A t \in TaskIds : tasks[t] = Idle
        /\ groupAlerts = <<>> /\ lowPriceAlert = Null /\ highPriceAlert = Null
        /\ cachedPrice = Null /\ cachedINRRate = Null

(* The single-chat DexScreener variant has exited for want of CHAT_ID *)
C16_Witness ==
    variant = "dex" /\ credentials.token /\ ~credentials.chat /\ exited

(* The cron callback starts awaiting the send of an alert of the kind to chat *)
StartsAlert(t, chat, pc) ==
    /\ tasks'[t].pc = pc /\ tasks'[t].msg.to = chat
    /\ tasks[t].pc # pc \/ tasks[t].msg.to # chat

(* C17 (per-group variant): /clear leaves both thresholds of its chat unset
   and the other chats' thresholds as they were, a /clear of a chat whose
   thresholds are unset changes nothing, and from then on the chat gets no
   alert until a /setlow or /sethigh of that chat is accepted: a threshold
   becomes set only in the step that handles such a command, and the cron
   callback starts an alert to a chat only for a threshold that is set. *)
C17_ClearUnsetsBoth ==
    [][\A chat \in Chats :
        LET other == CHOOSE c \in Chats : c # chat IN
        /\ GroupWebhook("h1", chat, Str_clear) =>
              /\ ThresholdLow(groupAlerts', chat) = Null
              /\ ThresholdHigh(groupAlerts', chat) = Null
              /\ ThresholdLow(groupAlerts', other) = ThresholdLow(groupAlerts, other)
              /\ ThresholdHigh(groupAlerts', other) = ThresholdHigh(groupAlerts, other)
              /\ (/\ Has(groupAlerts, chat)
                  /\ ThresholdLow(groupAlerts, chat) = Null
                  /\ ThresholdHigh(groupAlerts, chat) = Null) => groupAlerts' = groupAlerts
        /\ (ThresholdLow(groupAlerts, chat) = Null /\ ThresholdLow(groupAlerts', chat) # Null)
              => \E text \in GroupsTexts :
                    StartsWith(text, Str_setlow) /\ GroupWebhook("h1", chat, text)
        /\ (ThresholdHigh(groupAlerts, chat) = Null /\ ThresholdHigh(groupAlerts', chat) # Null)
              => \E text \in GroupsTexts :
                    StartsWith(text, Str_sethigh) /\ GroupWebhook("h1", chat, text)
        /\ StartsAlert("t1", chat, "sendLow") => ThresholdLow(groupAlerts, chat) # Null
        /\ StartsAlert("t1", chat, "sendHigh") => ThresholdHigh(groupAlerts, chat) # Null
    ]_vars

(* /clear of the first chat is being answered: its thresholds are unset while
   the cron callback awaits the send of the alert it had started for the
   chat's low threshold, and the second chat keeps both its thresholds *)
C17_Witness ==
    /\ tasks["h1"].pc = "reply" /\ tasks["h1"].msg.kind = "cleared"
    /\ tasks["h1"].msg.to = 1
    /\ ThresholdLow(groupAlerts, 1) = Null /\ ThresholdHigh(groupAlerts, 1) = Null
    /\ ThresholdLow(groupAlerts, 2) = Num(2) /\ ThresholdHigh(groupAlerts, 2) = Num(2)
    /\ tasks["t1"].pc = "sendLow" /\ tasks["t1"].msg.to = 1

(* The latest getDeepNodePrice call that has returned, in the next state *)
Returned == calls'[Len(calls')]

(* The cron callback or /price calls getDeepNodePrice as task t *)
CallsPrice(t) ==
    IF t = "t1" THEN GroupCron({"t1"}, "t1") \/ DexCron({"t1"}, "t1")
    ELSE GroupWebhook("h1", CHAT_ID, Str_price) \/ DexWebhook("h1", CHAT_ID, Str_price)

(* C18 (DexScreener variants): a getDeepNodePrice call returns without a
   request only when a price is cached and less than CACHE_DURATION old at
   the time of the call, and it then returns that price; a call whose last
   request leaves it without a price returns null and leaves cachedPrice and
   cacheTime as they are; a call that returns a price it has fetched leaves
   that price in cachedPrice. *)
C18_CacheTrustedWhileFresh ==
    [][\A t \in {"t1", "h1"} :
        /\ CallsPrice(t) /\ tasks'[t].pc # "price" =>
              /\ cachedPrice # Null /\ now' - cacheTime < CACHE_DURATION
              /\ Returned.reqs = <<>> /\ Returned.ret = cachedPrice
        /\ \A resp \in CacheResponses :
              /\ GroupFetched(t, resp) /\ GroupReturnsNull(tasks[t], resp) =>
                    /\ tasks'[t].pc # "price" /\ Returned.ret = Null
                    /\ cachedPrice' = cachedPrice /\ cacheTime' = cacheTime
              /\ DexFetched(t, resp) /\ DexReturn(tasks[t], resp) = [done |-> TRUE, usd |-> Null] =>
                    /\ tasks'[t].pc # "price" /\ Returned.ret = Null
                    /\ cachedPrice' = cachedPrice /\ cacheTime' = cacheTime
              /\ (GroupFetched(t, resp) \/ DexFetched(t, resp)) /\ tasks'[t].pc # "price"
                 /\ Returned.ret # Null => cachedPrice' = Returned.ret
    ]_vars

(* A call made when the cached price had expired has found no price and
   returned null, and the expired price and its time are still cached *)
C18_Witness ==
    /\ variant = "dex" /\ cachedPrice = Num(1) /\ cacheTime = 0
    /\ \E i \in 1..Len(calls) :
          calls[i].start = 2 /\ calls[i].reqs # <<>> /\ calls[i].ret = Null

(* An alert is due: the threshold is set and the price p has reached it *)
LowDue(p, low) == p # Null /\ low # Null /\ Val(p) <= Val(low)
HighDue(p, high) == p # Null /\ high # Null /\ Val(p) >= Val(high)

(* The cron callback t, which has got the price p, goes on to send the low
   alert exactly when it is due and, when it is not, the high alert exactly
   when that one is due *)
Evaluates(t, p, low, high) ==
    /\ tasks'[t].pc = "sendLow" <=> LowDue(p, low)
    /\ ~LowDue(p, low) => (tasks'[t].pc = "sendHigh" <=> HighDue(p, high))
    /\ tasks'[t].pc \in {"sendLow", "sendHigh"} => tasks'[t].usd = p

(* The cron callback t, whose low alert has been sent, goes on to send the
   high alert exactly when it is due *)
EvaluatesHigh(t, high) ==
    tasks'[t].pc = "sendHigh" <=> HighDue(tasks[t].usd, high)

(* C19 (all variants): a run of the cron callback sends the low alert if and
   only if the low threshold is set and the price it got is <= the threshold,
   and the high alert if and only if the high threshold is set and the price
   is >= it, the thresholds being those stored when the callback compares. *)
C19_AlertIffThresholdReached ==
    [][LET lowG == ThresholdLow(groupAlerts, CHAT_ID)
           highG == ThresholdHigh(groupAlerts, CHAT_ID)
       IN
       /\ GroupCron({"t1"}, "t1") /\ tasks'["t1"].pc \notin {"price", "rate"}
             => Evaluates("t1", cachedPrice, lowG, highG)
       /\ \A resp \in AlertResponses :
             GroupFetched("t1", resp) /\ tasks'["t1"].pc \notin {"price", "rate"}
             => Evaluates("t1", IF GroupReturnsNull(tasks["t1"], resp) THEN Null
                                ELSE cachedPrice', lowG, highG)
       /\ \A resp \in RateUp :
             GroupRated("t1", resp) /\ tasks'["t1"].pc # "rate"
             => Evaluates("t1", tasks["t1"].usd, lowG, highG)
       /\ \A ok \in BOOLEAN :
             /\ GroupLowSent("t1", ok) => EvaluatesHigh("t1", highG)
             /\ GroupHighSent("t1", ok) => tasks'["t1"].pc = "idle"
       /\ DexCron({"t1"}, "t1") /\ tasks'["t1"].pc # "price"
             => Evaluates("t1", cachedPrice, lowPriceAlert, highPriceAlert)
       /\ \A resp \in AlertResponses :
             DexFetched("t1", resp) /\ DexReturn(tasks["t1"], resp).done
             => Evaluates("t1", DexReturn(tasks["t1"], resp).usd,
                          lowPriceAlert, highPriceAlert)
       /\ \A resp \in CgResponses :
             CgFetched("t1", resp)
             => Evaluates("t1", CgPrice(resp), lowPriceAlert, highPriceAlert)
       /\ \A ok \in BOOLEAN :
             /\ DexLowSent("t1", ok) \/ CgLowSent("t1", ok)
                   => EvaluatesHigh("t1", highPriceAlert)
             /\ DexHighSent("t1", ok) \/ CgHighSent("t1", ok)
                   => tasks'["t1"].pc = "idle"
    ]_vars

(* The cron callback sends the low alert for a price equal to the low
   threshold, the high threshold being set and above the price *)
C19_Witness ==
    /\ variant = "dex" /\ tasks["t1"].pc = "sendLow"
    /\ lowPriceAlert = Num(2) /\ tasks["t1"].usd = Num(2)
    /\ highPriceAlert = Num(3)

(* C20 (per-group variant), as the claim states it: a threshold that /setlow
   (resp. /sethigh) sets while the cron callback awaits the send of the alert
   for the chat's previous low (resp. high) threshold is still stored when the
   callback goes on after the send. *)
C20_NewThresholdSurvivesTick ==
    [][\A t \in Ticks, ok \in BOOLEAN :
        /\ GroupLowSent(t, ok) /\ tasks[t].msg.stale =>
              ThresholdLow(groupAlerts', tasks[t].msg.to)
                 = ThresholdLow(groupAlerts, tasks[t].msg.to)
        /\ GroupHighSent(t, ok) /\ tasks[t].msg.stale =>
              ThresholdHigh(groupAlerts', tasks[t].msg.to)
                 = ThresholdHigh(groupAlerts, tasks[t].msg.to)
    ]_vars

(* C21 (single-chat variants): a webhook message of a chat other than CHAT_ID,
   or without a chat id, changes nothing: the thresholds stay as they are, the
   handler sends nothing and no other part of the state changes, so the
   program goes on as if the message had not arrived. *)
C21_OtherChatsIgnored ==
    [][\A chat \in Senders \ {CHAT_ID}, text \in Texts :
          DexWebhook("h1", chat, text) \/ CgWebhook("h1", chat, text)
          => UNCHANGED vars
    ]_vars

(* A low threshold is set and a /sethigh of another chat can arrive *)
C21_Witness ==
    /\ variant = "dex" /\ lowPriceAlert = Num(2) /\ highPriceAlert = Null
    /\ tasks["t1"].pc = "sendLow"
    /\ ENABLED DexWebhook("h1", 2, Str_sethigh \o <<" ", "2">>)

(* No alert is due at price p for the entries of ga from the i-th on *)
NoneDueFrom(ga, p, i) ==
    \A j \in i..Len(ga) : ~LowDue(p, ga[j].low) /\ ~HighDue(p, ga[j].high)

(* The cron callback goes on after the send of an alert *)
TickResumes == \E ok \in BOOLEAN : GroupLowSent("t1", ok) \/ GroupHighSent("t1", ok)

(* C22 (per-group variant): a run of the cron callback gets the price once,
   before its loop, and compares every chat's thresholds with that price: it
   requests no price after the first has arrived, the price of every alert it
   sends is that first price, and after each send it goes on to the next alert
   due at that price, ending only when none of the remaining entries is due. *)
C22_OnePricePerTick ==
    [][LET k == tasks["t1"]
           k2 == tasks'["t1"]
           sends == {"sendLow", "sendHigh"}
       IN
       /\ k.pc \in {"rate"} \cup sends => k2.pc # "price"
       /\ k.pc \in {"rate"} \cup sends /\ k2.pc \in sends => k2.usd = k.usd
       /\ TickResumes =>
             /\ k2.pc = "sendLow" =>
                   /\ k2.idx > k.idx
                   /\ LowDue(k.usd, groupAlerts[k2.idx].low)
                   /\ NoneDueFrom(SubSeq(groupAlerts, 1, k2.idx - 1), k.usd, k.idx + 1)
             /\ k2.pc = "sendHigh" =>
                   /\ k2.idx >= k.idx
                   /\ HighDue(k.usd, groupAlerts[k2.idx].high)
             /\ k2.pc = "idle" =>
                   /\ NoneDueFrom(groupAlerts, k.usd, k.idx + 1)
                   /\ k.pc = "sendLow" => ~HighDue(k.usd, groupAlerts[k.idx].high)
    ]_vars

(* The cron callback sends the second chat's low alert for the price it got,
   after the send of the first chat's alert, while a /setlow has cached
   another price *)
C22_Witness ==
    /\ tasks["t1"].pc = "sendLow" /\ tasks["t1"].idx = 2
    /\ Len(groupAlerts) = 2
    /\ cachedPrice # Null /\ cachedPrice # tasks["t1"].usd

(* The two thresholds of the chat CHAT_ID in the running variant *)
Low == IF variant = "group" THEN ThresholdLow(groupAlerts, CHAT_ID) ELSE lowPriceAlert
High == IF variant = "group" THEN ThresholdHigh(groupAlerts, CHAT_ID) ELSE highPriceAlert

(* The cron callback, which has got the price p, compares: it changes no
   threshold, sends the low alert first when both alerts are due and the high
   alert when only that one is due *)
Compares(p) ==
    /\ Low' = Low /\ High' = High
    /\ LowDue(p, Low) /\ HighDue(p, High) =>
          tasks'["t1"].pc = "sendLow" /\ tasks'["t1"].usd = p
    /\ ~LowDue(p, Low) /\ HighDue(p, High) => tasks'["t1"].pc = "sendHigh"

LowAlertSent ==
    \E ok \in BOOLEAN : GroupLowSent("t1", ok) \/ DexLowSent("t1", ok) \/ CgLowSent("t1", ok)
HighAlertSent ==
    \E ok \in BOOLEAN : GroupHighSent("t1", ok) \/ DexHighSent("t1", ok) \/ CgHighSent("t1", ok)

(* C23 (all variants): the cron callback treats the two thresholds apart. Its
   comparison changes no threshold, the step after the low alert's send leaves
   the high threshold as it is and the step after the high alert's send leaves
   the low threshold as it is; when the price has reached both thresholds the
   low alert is sent first and, the high threshold still being reached when
   that send has returned, the high alert is sent next in the same run. *)
C23_ThresholdsEvaluatedApart ==
    [][/\ (GroupCron({"t1"}, "t1") \/ DexCron({"t1"}, "t1"))
          /\ tasks'["t1"].pc \notin {"price", "rate"} => Compares(cachedPrice)
       /\ \A resp \in AlertResponses :
             /\ GroupFetched("t1", resp) /\ tasks'["t1"].pc \notin {"price", "rate"} =>
                   Compares(IF GroupReturnsNull(tasks["t1"], resp) THEN Null
                            ELSE cachedPrice')
             /\ DexFetched("t1", resp) /\ DexReturn(tasks["t1"], resp).done =>
                   Compares(DexReturn(tasks["t1"], resp).usd)
       /\ \A resp \in RateUp :
             GroupRated("t1", resp) /\ tasks'["t1"].pc # "rate" =>
                Compares(tasks["t1"].usd)
       /\ \A resp \in CgResponses : CgFetched("t1", resp) => Compares(CgPrice(resp))
       /\ LowAlertSent =>
             /\ High' = High
             /\ HighDue(tasks["t1"].usd, High) =>
                   tasks'["t1"].pc = "sendHigh" /\ tasks'["t1"].usd = tasks["t1"].usd
             /\ ~HighDue(tasks["t1"].usd, High) => tasks'["t1"].pc = "idle"
       /\ HighAlertSent => Low' = Low /\ tasks'["t1"].pc = "idle"
    ]_vars

(* Low and high threshold were both 2 and the price 2: the low alert's send
   has returned and the high alert is being sent in the same run *)
C23_Witness ==
    /\ variant = "dex" /\ tasks["t1"].pc = "sendHigh" /\ tasks["t1"].success = "yes"
    /\ tasks["t1"].usd = Num(2)
    /\ lowPriceAlert = Null /\ highPriceAlert = Num(2)

(* The commands each variant's help lists and its handler answers *)
Commands(v) ==
    {Str_start, Str_setlow, Str_sethigh, Str_status, Str_help}
    \cup (IF v = "group" THEN {Str_price, Str_inrrate, Str_clear}
          ELSE IF v = "dex" THEN {Str_price, Str_info} ELSE {})

(* C24 (all variants), as the claim states it: a message that starts with
   '/' and whose command word is none of the variant's commands is answered
   with the 'unknown command' reply and leaves the thresholds unchanged. *)
C24_UnknownCommandRejected ==
    [][\A text \in SlashTexts :
          /\ StartsWith(text, Str_slash) /\ UpToSpace(text) \notin Commands(variant)
          /\ \/ GroupWebhook("h1", CHAT_ID, text)
             \/ DexWebhook("h1", CHAT_ID, text)
             \/ CgWebhook("h1", CHAT_ID, text)
          => /\ tasks'["h1"].pc = "reply" /\ tasks'["h1"].msg.kind = "unknown"
             /\ Low' = Low /\ High' = High
    ]_vars

(* C25 (per-group variant): getUSDToINR gives a number > 0 whatever the
   exchange-rate APIs answer: the rate it returns, which is the one it leaves
   in cachedINRRate, is never null and is above 0, and when it returns to a
   run of the cron callback that has a price, the callback compares the
   thresholds with the price and sends what is due. *)
C25_RateFailureNeverBlocksAlerts ==
    [][/\ cachedINRRate # Null => Val(cachedINRRate) > 0
       /\ \A t \in {"t1", "h1"}, resp \in RateResponses :
             GroupRated(t, resp) /\ tasks'[t].pc # "rate" =>
                /\ cachedINRRate' # Null /\ Val(cachedINRRate') > 0
                /\ t = "t1" /\ tasks[t].usd # Null =>
                      Evaluates("t1", tasks[t].usd,
                                ThresholdLow(groupAlerts, CHAT_ID),
                                ThresholdHigh(groupAlerts, CHAT_ID))
    ]_vars

(* The three exchange-rate APIs have failed in the minute of the cron
   callback's run, and the callback sends the low alert for its price *)
C25_Witness ==
    /\ variant = "group" /\ now = 1
    /\ cachedINRRate = Num(FALLBACK_INR) /\ inrCacheTime = 1
    /\ tasks["t1"].pc = "sendLow" /\ tasks["t1"].usd # Null
    /\ tasks["h1"].pc = "idle"

(* An exchange-rate API's answer gives no rate *)
RateFailed(resp) == resp.status # "ok" \/ resp.rate = Null \/ Val(resp.rate) <= 0

(* C26 (per-group variant), as the claim states it: cachedINRRate and
   inrCacheTime are written only with a rate an API has returned; when the
   last of the three APIs fails too, both are left as they are. *)
C26_RateCacheHoldsFetchedRates ==
    [][\A t \in {"t1", "h1"}, resp \in RateResponses :
          GroupRated(t, resp) =>
             /\ RateFailed(resp) =>
                   cachedINRRate' = cachedINRRate /\ inrCacheTime' = inrCacheTime
             /\ ~RateFailed(resp) => cachedINRRate' = resp.rate
    ]_vars

====
